---- MODULE Spec2Model ----
(***************************************************************************)
(* A model of the TTL + LRU cache engine (src/src/TTLLRUCache.ts), its     *)
(* list node (src/src/CacheNode.ts) and the method-caching wrapper         *)
(* (src/src/decorators.ts).                                                *)
(*                                                                         *)
(* The engine object is a record; the private list operations and the      *)
(* public methods are operators from an engine record to the engine record *)
(* after the call, translated statement by statement.  Nodes live in an    *)
(* arena `nodes` addressed by node ids; NullNode is the null reference.    *)
(***************************************************************************)
EXTENDS Integers, Sequences, FiniteSets, TLC

VARIABLES
    capacity,    \* TTLLRUCache.capacity
    defaultTTL,  \* TTLLRUCache.defaultTTL (milliseconds)
    cache,       \* TTLLRUCache.cache : Map<K, CacheNode>, key -> node id
    nodes,       \* the heap of CacheNode objects, node id -> CacheNode
    head,        \* TTLLRUCache.head (node id or NullNode)
    tail,        \* TTLLRUCache.tail (node id or NullNode)
    size,        \* TTLLRUCache.size
    now,         \* the value Date.now() returns (milliseconds)
    listener,    \* the subscriber of 'evict', registered with on('evict', fn)
    emitted,     \* the 'evict' events the last operation emitted, in order
    observed,    \* what the subscriber found at each of these events
    lastOp,      \* the last operation: its name, arguments, result
    touched,     \* keys in the index, most recently touched first
    ref,         \* reference map-with-recency, most recently used first
    refResult,   \* what the reference map answered to the last get
    wopts,       \* the wrapper's CacheableOptions
    decorated,   \* the caches of the decorated methods of a class
    calls,       \* the wrapper's invocations: call id -> frame
    lastCall     \* the wrapper's last step: the call and what it did

vars == <<capacity, defaultTTL, cache, nodes, head, tail, size, now,
          listener, emitted, observed, lastOp, touched, ref, refResult, wopts,
          decorated, calls, lastCall>>

engineVars == <<capacity, defaultTTL, cache, head, tail, size, listener>>

\* what the decoration of a class sets up
decorationVars == <<wopts, decorated>>

----------------------------------------------------------------------------
(* Bounds of the model *)

\* The clock stops at MaxNowSec seconds.
MaxNowSec == 2

\* The node arena holds at most MaxNodes live nodes.
MaxNodes == 3

\* The wrapper is invoked by at most MaxCalls overlapping callers.
MaxCalls == 2

(* Program constants *)

\* `options?.capacity ?? 100`
DefaultCapacity == 100

\* `* 1000`: seconds to milliseconds
MsPerSec == 1000

\* the null reference of prev / next / head / tail
NullNode == 0

\* `null` as the value of CacheNode.expiry (number | null)
NullExpiry == <<>>

\* JavaScript's undefined and null as values
Undefined == "undefined"
Null == "null"

\* what a caller gets when the call throws
Thrown == "thrown"

\* no subscriber is registered: emit calls nothing
NoListener == [kind |-> "none"]

(* Inputs *)

Keys == {"A", "B", "C"}
Values == {"Alpha", "Beta"}

\* set's optional third argument ttlSeconds: <<>> when omitted, <<n>> when given
TtlArgs == {<<>>, <<0>>, <<1>>, <<-1>>}

\* CacheOptions given to the constructor: each field is optional
CacheOptionsSet ==
    { <<>>,
      [capacity |-> 2, ttl |-> 1],
      [capacity |-> 1],
      [capacity |-> 1, ttl |-> -1],
      [capacity |-> 0],
      [capacity |-> -1, ttl |-> 1] }

NodeIds == 1..MaxNodes

\* The subscribers registered with on('evict', fn): one that only looks, one
\* that throws, and three that call back into the cache the event comes from.
Listeners ==
    { [kind |-> "observe"],
      [kind |-> "throw"],
      [kind |-> "set", key |-> "C", value |-> "Beta"],
      [kind |-> "get", key |-> "A"],
      [kind |-> "clear"] }

\* the caches a subscriber is registered on
SubscribedOptionsSet ==
    { [capacity |-> 1],
      [capacity |-> 2, ttl |-> 1],
      [capacity |-> 0] }

\* The clock advances a second at a time.
TickStep == MsPerSec

----------------------------------------------------------------------------
(* CacheNode *)

CacheNode(key, value, expiry) ==
    [key |-> key, value |-> value, expiry |-> expiry,
     prev |-> NullNode, next |-> NullNode]

----------------------------------------------------------------------------
(* The engine object *)

\* The engine as one record `c`; `emitted` collects the events it publishes
\* during a call and `observed` what the subscriber found at each; `thrown` says
\* that an exception is on its way out of the call.
This ==
    [capacity |-> capacity, defaultTTL |-> defaultTTL, cache |-> cache,
     nodes |-> nodes, head |-> head, tail |-> tail, size |-> size,
     listener |-> listener, emitted |-> <<>>, observed |-> <<>>,
     thrown |-> FALSE]

Has(opts, f) == f \in DOMAIN opts

Constructor(options) ==
    [capacity |-> IF Has(options, "capacity") THEN options.capacity
                  ELSE DefaultCapacity,
     defaultTTL |-> (IF Has(options, "ttl") THEN options.ttl ELSE 0) * MsPerSec,
     cache |-> <<>>,
     nodes |-> <<>>,
     head |-> NullNode,
     tail |-> NullNode,
     size |-> 0,
     listener |-> NoListener,
     emitted |-> <<>>,
     observed |-> <<>>,
     thrown |-> FALSE]

\* Map.delete(key)
MapDelete(m, k) == [x \in DOMAIN m \ {k} |-> m[x]]

\* Map.set(key, v)
MapSet(m, k, v) == [x \in DOMAIN m \cup {k} |-> IF x = k THEN v ELSE m[x]]

\* moveToHead without `if (node === this.tail) this.tail = node.prev`
moveToHead_KeepTail(c, n) ==
    IF n = c.head THEN c
    ELSE
      LET n1 == IF c.nodes[n].prev # NullNode
                THEN [c.nodes EXCEPT ![c.nodes[n].prev].next = c.nodes[n].next]
                ELSE c.nodes
          n2 == IF n1[n].next # NullNode
                THEN [n1 EXCEPT ![n1[n].next].prev = n1[n].prev]
                ELSE n1
          n3 == [n2 EXCEPT ![n].next = c.head, ![n].prev = NullNode]
          n4 == IF c.head # NullNode
                THEN [n3 EXCEPT ![c.head].prev = n]
                ELSE n3
      IN [c EXCEPT !.nodes = n4,
                   !.head = n,
                   !.tail = IF c.tail = NullNode THEN n ELSE c.tail]

moveToHead(c, n) ==
    IF n = c.head THEN c
    ELSE
      LET n1 == IF c.nodes[n].prev # NullNode
                THEN [c.nodes EXCEPT ![c.nodes[n].prev].next = c.nodes[n].next]
                ELSE c.nodes
          n2 == IF n1[n].next # NullNode
                THEN [n1 EXCEPT ![n1[n].next].prev = n1[n].prev]
                ELSE n1
          tail1 == IF n = c.tail THEN n2[n].prev ELSE c.tail
          n3 == [n2 EXCEPT ![n].next = c.head, ![n].prev = NullNode]
          n4 == IF c.head # NullNode
                THEN [n3 EXCEPT ![c.head].prev = n]
                ELSE n3
      IN [c EXCEPT !.nodes = n4,
                   !.head = n,
                   !.tail = IF tail1 = NullNode THEN n ELSE tail1]

addToHead(c, n) ==
    LET n1 == [c.nodes EXCEPT ![n].next = c.head, ![n].prev = NullNode]
        n2 == IF c.head # NullNode
              THEN [n1 EXCEPT ![c.head].prev = n]
              ELSE n1
    IN [c EXCEPT !.nodes = n2,
                 !.head = n,
                 !.tail = IF c.tail = NullNode THEN n ELSE c.tail]

removeNode(c, n) ==
    LET n1 == IF c.nodes[n].prev # NullNode
              THEN [c.nodes EXCEPT ![c.nodes[n].prev].next = c.nodes[n].next]
              ELSE c.nodes
        n2 == IF n1[n].next # NullNode
              THEN [n1 EXCEPT ![n1[n].next].prev = n1[n].prev]
              ELSE n1
    IN [c EXCEPT !.cache = MapDelete(c.cache, c.nodes[n].key),
                 !.size = c.size - 1,
                 !.nodes = n2,
                 !.head = IF n = c.head THEN n2[n].next ELSE c.head,
                 !.tail = IF n = c.tail THEN n2[n].prev ELSE c.tail]

isExpired(node, t) ==
    node.expiry # NullExpiry /\ node.expiry[1] < t

\* the event with the reason left at 'capacity'
EvictEvent_OneReason(node, reason) ==
    [key |-> node.key, value |-> node.value, reason |-> "capacity"]

EvictEvent(node, reason) ==
    [key |-> node.key, value |-> node.value, reason |-> reason]

\* emitEvict calls the subscriber, which may call get, set and clear: it is
\* defined after them.
RECURSIVE emitEvict(_, _, _)

RECURSIVE get(_, _, _)

RECURSIVE set(_, _, _, _, _)

----------------------------------------------------------------------------
(* Public methods of the engine.  `t` is what Date.now() returns during     *)
(* the call; each returns the engine after the call and the call's result.  *)

\* get without `this.moveToHead(node)`
get_NoRefresh(c, key, t) ==
    IF key \notin DOMAIN c.cache
    THEN [c |-> c, result |-> Undefined]
    ELSE
      LET n == c.cache[key]
      IN IF isExpired(c.nodes[n], t)
         THEN [c |-> emitEvict(removeNode(c, n), n, "expired"),
               result |-> Undefined]
         ELSE [c |-> c, result |-> c.nodes[n].value]

\* get counting a miss as a removal: `this.size--` before the early return
get_MissShrinks(c, key, t) ==
    IF key \notin DOMAIN c.cache
    THEN [c |-> [c EXCEPT !.size = c.size - 1], result |-> Undefined]
    ELSE
      LET n == c.cache[key]
      IN IF isExpired(c.nodes[n], t)
         THEN [c |-> emitEvict(removeNode(c, n), n, "expired"),
               result |-> Undefined]
         ELSE [c |-> moveToHead(c, n), result |-> c.nodes[n].value]

get(c, key, t) ==
    IF key \notin DOMAIN c.cache
    THEN [c |-> c, result |-> Undefined]
    ELSE
      LET n == c.cache[key]
      IN IF isExpired(c.nodes[n], t)
         THEN [c |-> emitEvict(removeNode(c, n), n, "expired"),
               result |-> Undefined]
         ELSE [c |-> moveToHead(c, n), result |-> c.nodes[n].value]

\* resolveTTL testing `ttlSeconds !== undefined` for the truthiness of ttlSeconds
resolveTTL_ZeroGiven(c, ttlArg) ==
    IF ttlArg # <<>> THEN ttlArg[1] * MsPerSec
    ELSE c.defaultTTL

\* `ttlSeconds ? ttlSeconds * 1000 : this.defaultTTL`
resolveTTL(c, ttlArg) ==
    IF ttlArg # <<>> /\ ttlArg[1] # 0 THEN ttlArg[1] * MsPerSec
    ELSE c.defaultTTL

\* `ttl > 0 ? Date.now() + ttl : null`
computeExpiry(ttl, t) ==
    IF ttl > 0 THEN <<t + ttl>> ELSE NullExpiry

\* `new CacheNode(...)`: a fresh object, here the least unused node id
NewNodeId(c) ==
    LET free == (1..(Cardinality(DOMAIN c.nodes) + 1)) \ DOMAIN c.nodes
    IN CHOOSE i \in free : \A j \in free : i <= j

\* evictIfFull looking for an expired entry first and taking the tail only
\* when there is none
evictIfFull_ExpiredFirst(c) ==
    LET stale == {n \in {c.cache[k] : k \in DOMAIN c.cache} :
                     isExpired(c.nodes[n], now)}
        victim == IF stale # {} THEN CHOOSE n \in stale : TRUE ELSE c.tail
    IN IF c.size >= c.capacity
       THEN IF c.tail # NullNode
            THEN emitEvict(removeNode(c, victim), victim, "capacity")
            ELSE c
       ELSE c

\* evictIfFull with `>` for `>=`
evictIfFull_OffByOne(c) ==
    IF c.size > c.capacity
    THEN IF c.tail # NullNode
         THEN emitEvict(removeNode(c, c.tail), c.tail, "capacity")
         ELSE c
    ELSE c

\* the `if (this.size >= this.capacity) { if (this.tail) {...} }` block of set
evictIfFull(c) ==
    IF c.size >= c.capacity
    THEN IF c.tail # NullNode
         THEN emitEvict(removeNode(c, c.tail), c.tail, "capacity")
         ELSE c
    ELSE c

\* updateExisting with the capacity check of the insert path
updateExisting_Evicting(c, key, value, expiry) ==
    LET n == c.cache[key]
        c1 == [c EXCEPT !.nodes[n].value = value, !.nodes[n].expiry = expiry]
        c2 == moveToHead(c1, n)
    IN IF c2.size >= c2.capacity /\ c2.tail # n
       THEN emitEvict(removeNode(c2, c2.tail), c2.tail, "capacity")
       ELSE c2

\* set, the key is in the index: `node.value = value; node.expiry = expiry;
\* this.moveToHead(node)`
updateExisting(c, key, value, expiry) ==
    LET n == c.cache[key]
        c1 == [c EXCEPT !.nodes[n].value = value, !.nodes[n].expiry = expiry]
    IN moveToHead(c1, n)

\* set, the key is new
insertNew(c, key, value, expiry) ==
    LET id == NewNodeId(c)
        c1 == [c EXCEPT !.nodes = MapSet(c.nodes, id,
                                         CacheNode(key, value, expiry))]
        c2 == evictIfFull(c1)
        c3 == [c2 EXCEPT !.cache = MapSet(c2.cache, key, id)]
        c4 == addToHead(c3, id)
    IN IF c2.thrown THEN c2
       ELSE [c4 EXCEPT !.size = c4.size + 1]

\* set treating an expired entry as get does: it removes the entry, emits
\* 'expired' and then inserts the key as a new one
set_ExpiringFirst(c, key, value, ttlArg, t) ==
    LET ttl == resolveTTL(c, ttlArg)
        expiry == computeExpiry(ttl, t)
    IN IF key \in DOMAIN c.cache
       THEN IF isExpired(c.nodes[c.cache[key]], t)
            THEN insertNew(emitEvict(removeNode(c, c.cache[key]),
                                     c.cache[key], "expired"),
                           key, value, expiry)
            ELSE updateExisting(c, key, value, expiry)
       ELSE insertNew(c, key, value, expiry)

set(c, key, value, ttlArg, t) ==
    LET ttl == resolveTTL(c, ttlArg)
        expiry == computeExpiry(ttl, t)
    IN IF key \in DOMAIN c.cache
       THEN updateExisting(c, key, value, expiry)
       ELSE insertNew(c, key, value, expiry)

\* clear without `this.size = 0`
clear_KeepSize(c) ==
    [c EXCEPT !.head = NullNode, !.tail = NullNode, !.cache = <<>>]

clear(c) ==
    [c EXCEPT !.head = NullNode, !.tail = NullNode, !.size = 0,
              !.cache = <<>>]

\* What a subscriber can find out when it is called: the event, `cache.size`
\* and, with a get of each key, the keys stored.
Snapshot(c, event) ==
    [event |-> event, size |-> c.size, keys |-> DOMAIN c.cache]

\* The subscriber runs: it returns, throws, or calls a method of the cache
\* and passes on what that call throws.  Date.now() has not moved.
listenerCall(c, event) ==
    CASE c.listener.kind = "observe" -> c
      [] c.listener.kind = "throw" -> [c EXCEPT !.thrown = TRUE]
      [] c.listener.kind = "set" ->
           set(c, c.listener.key, c.listener.value, <<>>, now)
      [] c.listener.kind = "get" -> get(c, c.listener.key, now).c
      [] c.listener.kind = "clear" -> clear(c)

\* `this.emit("evict", event)`: EventEmitter.emit calls the listener before
\* it returns, and an exception of the listener leaves emit
emitEvict(c, n, reason) ==
    LET event == EvictEvent(c.nodes[n], reason)
        c1 == [c EXCEPT !.emitted = Append(c.emitted, event)]
    IN IF c.listener = NoListener THEN c1
       ELSE listenerCall([c1 EXCEPT !.observed = Append(c1.observed,
                                                   Snapshot(c1, event))],
                         event)

----------------------------------------------------------------------------
(* Garbage collection: a node no reference leads to is gone. *)

Range(f) == {f[x] : x \in DOMAIN f}

Roots(c) == (Range(c.cache) \cup {c.head, c.tail}) \ {NullNode}

RECURSIVE Reach(_, _)
Reach(c, S) ==
    LET S2 == (S \cup {c.nodes[i].prev : i \in S}
                 \cup {c.nodes[i].next : i \in S}) \ {NullNode}
    IN IF S2 = S THEN S ELSE Reach(c, S2)

Collect(c) ==
    [c EXCEPT !.nodes = [i \in Reach(c, Roots(c)) |-> c.nodes[i]]]

(* A node id is an address: it shows in no result.  After each call the    *)
(* live nodes are renumbered in the order the walk from head meets them,   *)
(* then the others in the order of their ids.                              *)

RECURSIVE Walk(_, _, _)
Walk(c, n, seen) ==
    IF n = NullNode \/ n \in seen THEN <<>>
    ELSE <<n>> \o Walk(c, c.nodes[n].next, seen \cup {n})

RECURSIVE Ascending(_)
Ascending(S) ==
    IF S = {} THEN <<>>
    ELSE LET m == CHOOSE i \in S : \A j \in S : i <= j
         IN <<m>> \o Ascending(S \ {m})

SeqRange(q) == {q[i] : i \in DOMAIN q}

Renumber(c) ==
    LET w == Walk(c, c.head, {})
        order == w \o Ascending(DOMAIN c.nodes \ SeqRange(w))
        new(n) == IF n = NullNode THEN NullNode
                  ELSE CHOOSE i \in DOMAIN order : order[i] = n
    IN [c EXCEPT
          !.nodes = [i \in DOMAIN order |->
                       [c.nodes[order[i]] EXCEPT
                          !.prev = new(c.nodes[order[i]].prev),
                          !.next = new(c.nodes[order[i]].next)]],
          !.cache = [k \in DOMAIN c.cache |-> new(c.cache[k])],
          !.head = new(c.head),
          !.tail = new(c.tail)]

----------------------------------------------------------------------------
(* Observers: what a caller can record about a run without looking at the  *)
(* recency list.                                                           *)

\* the sequence s with k moved (or added) to the front
MoveFront(s, k) == <<k>> \o SelectSeq(s, LAMBDA x : x # k)

\* the keys of s that the index m holds
Present(s, m) == SelectSeq(s, LAMBDA x : x \in DOMAIN m)

NoKey == "-"

NoValue == "-"

\* What a call shows and what its caller could have known before it: was the
\* key in the index, the size, for a set of a key in the index, had the
\* key's expiry passed, and for a set of a new key, had the tail's.
Op(name, key, value, ttlArg, result) ==
    [op |-> name, key |-> key, value |-> value, ttl |-> ttlArg,
     result |-> result,
     existed |-> key \in DOMAIN cache, sizeBefore |-> size,
     wasExpired |-> /\ name = "set"
                    /\ key \in DOMAIN cache
                    /\ nodes[cache[key]].expiry # NullExpiry
                    /\ nodes[cache[key]].expiry[1] < now,
     lruExpired |-> /\ name = "set"
                    /\ key \notin DOMAIN cache
                    /\ tail # NullNode
                    /\ nodes[tail].expiry # NullExpiry
                    /\ nodes[tail].expiry[1] < now]

----------------------------------------------------------------------------
(* The state machine of the engine *)

\* what the caller of a call gets: its result, or what it throws
Outcome(c, result) == IF c.thrown THEN Thrown ELSE result

\* the engine's fields after a call, unreachable nodes collected
Commit(c) ==
    \E d \in {Renumber(Collect(c))} :
       /\ DOMAIN d.nodes \subseteq NodeIds
       /\ listener' = d.listener
       /\ observed' = d.observed
       /\ capacity' = d.capacity
       /\ defaultTTL' = d.defaultTTL
       /\ cache' = d.cache
       /\ nodes' = d.nodes
       /\ head' = d.head
       /\ tail' = d.tail
       /\ size' = d.size
       /\ emitted' = d.emitted

Constructed(c) ==
    /\ capacity = c.capacity
    /\ defaultTTL = c.defaultTTL
    /\ cache = c.cache
    /\ nodes = c.nodes
    /\ head = c.head
    /\ tail = c.tail
    /\ size = c.size
    /\ emitted = c.emitted
    /\ observed = c.observed

InitObservers ==
    /\ now = 0
    /\ lastOp = [op |-> "new", key |-> NoKey, value |-> NoValue, ttl |-> <<>>,
                 result |-> Undefined, existed |-> FALSE, sizeBefore |-> 0,
                 wasExpired |-> FALSE, lruExpired |-> FALSE]
    /\ touched = <<>>
    /\ ref = <<>>
    /\ refResult = Undefined

Init ==
    /\ \E options \in CacheOptionsSet : Constructed(Constructor(options))
    /\ listener = NoListener
    /\ InitObservers
    /\ wopts = <<>>
    /\ decorated = <<>>
    /\ calls = <<>>
    /\ lastCall = [id |-> 0, step |-> "none", key |-> NoKey,
                   outcome |-> "none", value |-> NoValue,
                   settled |-> NoValue, invoked |-> 0]

getStep(k) ==
    /\ \E r \in {get(This, k, now)} :
          /\ Commit(r.c)
          /\ lastOp' = Op("get", k, NoValue, <<>>, Outcome(r.c, r.result))
          /\ touched' = Present(IF r.result # Undefined
                                THEN MoveFront(touched, k)
                                ELSE touched, r.c.cache)
    /\ UNCHANGED <<now, decorationVars>>

setStep(k, v, ttlArg) ==
    /\ IF k \in DOMAIN cache THEN TRUE ELSE NodeIds \ DOMAIN nodes # {}
    /\ \E c \in {set(This, k, v, ttlArg, now)} :
          /\ Commit(c)
          /\ lastOp' = Op("set", k, v, ttlArg, Outcome(c, Undefined))
          /\ touched' = Present(MoveFront(touched, k), c.cache)
    /\ UNCHANGED <<now, decorationVars>>

clearStep ==
    /\ Commit(clear(This))
    /\ lastOp' = Op("clear", NoKey, NoValue, <<>>, Undefined)
    /\ touched' = <<>>
    /\ UNCHANGED <<now, decorationVars>>

\* a clock tick that removes the tail as soon as its expiry has passed
tickStep_Sweeping ==
    /\ now + TickStep <= MaxNowSec * MsPerSec
    /\ now' = now + TickStep
    /\ lastOp' = Op("tick", NoKey, NoValue, <<>>, Undefined)
    /\ Commit(IF tail # NullNode /\ isExpired(nodes[tail], now + TickStep)
              THEN removeNode(This, tail)
              ELSE This)
    /\ UNCHANGED <<touched, decorationVars, calls>>

\* time passes: Date.now() returns a later value
tickStep ==
    /\ now + TickStep <= MaxNowSec * MsPerSec
    /\ now' = now + TickStep
    /\ lastOp' = Op("tick", NoKey, NoValue, <<>>, Undefined)
    /\ emitted' = <<>>
    /\ observed' = <<>>
    /\ UNCHANGED <<engineVars, nodes, touched, decorationVars, calls>>

Get(k) == getStep(k) /\ UNCHANGED <<ref, refResult, calls, lastCall>>

Set(k, v, ttlArg) ==
    setStep(k, v, ttlArg) /\ UNCHANGED <<ref, refResult, calls, lastCall>>

Clear == clearStep /\ UNCHANGED <<ref, refResult, calls, lastCall>>

Tick == tickStep /\ UNCHANGED <<ref, refResult, lastCall>>

Next ==
    \/ \E k \in Keys : Get(k)
    \/ \E k \in Keys, v \in Values, ttlArg \in TtlArgs : Set(k, v, ttlArg)
    \/ Clear
    \/ Tick

Spec == Init /\ [][Next]_vars

----------------------------------------------------------------------------
(* The engine with a subscriber: `cache.on('evict', fn)` right after the    *)
(* construction, then the same calls.                                       *)

InitSubscribed ==
    /\ \E options \in SubscribedOptionsSet :
          Constructed(Constructor(options))
    /\ listener \in Listeners
    /\ InitObservers
    /\ wopts = <<>>
    /\ decorated = <<>>
    /\ calls = <<>>
    /\ lastCall = [id |-> 0, step |-> "none", key |-> NoKey,
                   outcome |-> "none", value |-> NoValue,
                   settled |-> NoValue, invoked |-> 0]

SpecSubscribed == InitSubscribed /\ [][Next]_vars

----------------------------------------------------------------------------
(* The engine run side by side with a reference map-with-recency: a        *)
(* sequence of entries, most recently used first, in which an entry is     *)
(* stale once its expiry time has been reached.                            *)

RefKeys(r) == {r[i].key : i \in DOMAIN r}

RefEntry(r, k) == r[CHOOSE i \in DOMAIN r : r[i].key = k]

RefWithout(r, k) == SelectSeq(r, LAMBDA e : e.key # k)

RefStale(e, t) == e.expiry # NullExpiry /\ t >= e.expiry[1]

refGet(r, k, t) ==
    IF k \notin RefKeys(r) THEN [ref |-> r, result |-> Undefined]
    ELSE IF RefStale(RefEntry(r, k), t)
         THEN [ref |-> RefWithout(r, k), result |-> Undefined]
         ELSE [ref |-> <<RefEntry(r, k)>> \o RefWithout(r, k),
               result |-> RefEntry(r, k).value]

refSet(r, k, v, expiry, cap) ==
    LET e == [key |-> k, value |-> v, expiry |-> expiry]
    IN IF k \in RefKeys(r) THEN <<e>> \o RefWithout(r, k)
       ELSE IF Len(r) >= cap /\ Len(r) > 0
            THEN <<e>> \o SubSeq(r, 1, Len(r) - 1)
            ELSE <<e>> \o r

RefGet(k) ==
    /\ getStep(k)
    /\ \E g \in {refGet(ref, k, now)} :
          /\ ref' = g.ref
          /\ refResult' = g.result
    /\ UNCHANGED <<calls, lastCall>>

RefSet(k, v, ttlArg) ==
    /\ setStep(k, v, ttlArg)
    /\ ref' = refSet(ref, k, v, computeExpiry(resolveTTL(This, ttlArg), now),
                     capacity)
    /\ refResult' = Undefined
    /\ UNCHANGED <<calls, lastCall>>

RefClear ==
    /\ clearStep
    /\ ref' = <<>>
    /\ refResult' = Undefined
    /\ UNCHANGED <<calls, lastCall>>

RefTick == tickStep /\ UNCHANGED <<ref, refResult, lastCall>>

NextRef ==
    \/ \E k \in Keys : RefGet(k)
    \/ \E k \in Keys, v \in Values, ttlArg \in TtlArgs : RefSet(k, v, ttlArg)
    \/ RefClear
    \/ RefTick

SpecRef == Init /\ [][NextRef]_vars

----------------------------------------------------------------------------
(* The method-caching wrapper, Cacheable(options): one private engine per    *)
(* decorated method, and an async function in place of the method.  A call   *)
(* runs to its `await` in one step and from there to its end in another.     *)

\* `options.capacity || 100`
WrapperDefaultCapacity == 100

\* CacheableOptions: ttl is required, capacity and keyGenerator are optional.
\* A keyGenerator is named: "userKey" is (id) => 'user:' + id, and "strict"
\* is the same function throwing on an id of 2.
CacheableOptionsSet ==
    { [ttl |-> 1],
      [ttl |-> 1, capacity |-> 1, keyGenerator |-> "userKey"],
      [ttl |-> 0, capacity |-> 0, keyGenerator |-> "strict"] }

\* the argument lists the method is called with
ArgsSet == {<<1>>, <<2>>}

\* what the wrapped operation resolves to: a value, a falsy value, null or
\* undefined
Results == {"User", "0", Null, Undefined}

\* the falsy values of JavaScript among the values modelled
Falsy == {"0", Null, Undefined}

CallIds == 1..MaxCalls

RECURSIVE Join(_)
Join(args) ==
    IF Len(args) = 0 THEN ""
    ELSE IF Len(args) = 1 THEN ToString(args[1])
    ELSE ToString(args[1]) \o "," \o Join(Tail(args))

\* JSON.stringify of an array of numbers
JSONStringify(args) == "[" \o Join(args) \o "]"

\* a call of the named keyGenerator: the key, or a throw
ApplyKeyGenerator(name, args) ==
    IF name = "strict" /\ args[1] = 2
    THEN [ok |-> FALSE, key |-> NoKey]
    ELSE [ok |-> TRUE, key |-> "user:" \o ToString(args[1])]

\* `options.keyGenerator ? options.keyGenerator(...args) : JSON.stringify(args)`
DeriveKey(options, args) ==
    IF Has(options, "keyGenerator")
    THEN ApplyKeyGenerator(options.keyGenerator, args)
    ELSE [ok |-> TRUE, key |-> JSONStringify(args)]

\* `new TTLLRUCache({ ttl: options.ttl, capacity: options.capacity || 100 })`
Cacheable(options) ==
    Constructor([ttl |-> options.ttl,
                 capacity |-> IF Has(options, "capacity")
                                 /\ options.capacity # 0
                              THEN options.capacity
                              ELSE WrapperDefaultCapacity])

\* `if (cachedResult)`
isHit_Truthy(cachedResult) == cachedResult \notin Falsy

\* `if (cachedResult !== undefined)`
isHit(cachedResult) == cachedResult # Undefined

\* `if (result !== undefined && result !== null)`
isStorable(result) == result # Undefined /\ result # Null

\* An activation of the async function: idle, or suspended at its `await`
\* with the key it derived.
Frame(pc, key) == [pc |-> pc, key |-> key]

IdleFrame == Frame("idle", NoKey)

\* What a step of a call shows its caller: the derived key, how the step
\* ended ("returned", "thrown" or "awaiting"), the value returned, what the
\* awaited operation settled to, and how many times the step invoked the
\* wrapped operation.
Call(i, step, key, outcome, value, settled, invoked) ==
    [id |-> i, step |-> step, key |-> key, outcome |-> outcome,
     value |-> value, settled |-> settled, invoked |-> invoked]

NoCall == Call(0, "none", NoKey, "none", NoValue, NoValue, 0)

InitWrapper ==
    /\ \E options \in CacheableOptionsSet :
          /\ wopts = options
          /\ Constructed(Cacheable(options))
    /\ listener = NoListener
    /\ InitObservers
    /\ decorated = <<>>
    /\ calls = [i \in CallIds |-> IdleFrame]
    /\ lastCall = NoCall

\* an activation record is free; a new call takes the first free one
FirstIdle(i) ==
    /\ calls[i].pc = "idle"
    /\ \A j \in CallIds : calls[j].pc = "idle" => i <= j

\* A caller invokes the decorated method: the wrapper derives the key, asks
\* the engine, and on a miss calls the wrapped operation, which either throws
\* at once (origThrows) or returns a value or promise to await.
Invoke(i, args, origThrows) ==
    /\ FirstIdle(i)
    /\ \E kg \in {DeriveKey(wopts, args)} :
          IF ~kg.ok
          THEN /\ lastCall' = Call(i, "invoke", NoKey, "thrown", NoValue,
                                   NoValue, 0)
               /\ lastOp' = Op("none", NoKey, NoValue, <<>>, Undefined)
               /\ emitted' = <<>>
               /\ observed' = <<>>
               /\ UNCHANGED <<engineVars, nodes, calls>>
          ELSE \E r \in {get(This, kg.key, now)} :
                  /\ Commit(r.c)
                  /\ lastOp' = Op("get", kg.key, NoValue, <<>>, r.result)
                  /\ IF isHit(r.result)
                     THEN /\ lastCall' = Call(i, "invoke", kg.key, "returned",
                                              r.result, NoValue, 0)
                          /\ UNCHANGED calls
                     ELSE IF origThrows
                     THEN /\ lastCall' = Call(i, "invoke", kg.key, "thrown",
                                              NoValue, NoValue, 1)
                          /\ UNCHANGED calls
                     ELSE /\ lastCall' = Call(i, "invoke", kg.key, "awaiting",
                                              NoValue, NoValue, 1)
                          /\ calls' = [calls EXCEPT
                                         ![i] = Frame("awaiting", kg.key)]
    /\ UNCHANGED <<now, touched, ref, refResult, decorationVars>>

\* Resolve storing only under a key the cache does not hold:
\* `if (!cache.has(key)) cache.set(key, result)`
Resolve_FirstWins(i, result) ==
    /\ calls[i].pc = "awaiting"
    /\ lastCall' = Call(i, "resolve", calls[i].key, "returned", result,
                        result, 0)
    /\ IF isStorable(result) /\ calls[i].key \notin DOMAIN cache
       THEN /\ NodeIds \ DOMAIN nodes # {}
            /\ Commit(set(This, calls[i].key, result, <<>>, now))
            /\ lastOp' = Op("set", calls[i].key, result, <<>>, Undefined)
       ELSE /\ lastOp' = Op("none", NoKey, NoValue, <<>>, Undefined)
            /\ emitted' = <<>>
            /\ observed' = <<>>
            /\ UNCHANGED <<engineVars, nodes>>
    /\ calls' = [calls EXCEPT ![i] = IdleFrame]
    /\ UNCHANGED <<now, touched, ref, refResult, decorationVars>>

\* The awaited operation resolves to `result`: the wrapper stores it if it is
\* storable and returns it.
Resolve(i, result) ==
    /\ calls[i].pc = "awaiting"
    /\ lastCall' = Call(i, "resolve", calls[i].key, "returned", result,
                        result, 0)
    /\ IF isStorable(result)
       THEN /\ IF calls[i].key \in DOMAIN cache THEN TRUE
               ELSE NodeIds \ DOMAIN nodes # {}
            /\ Commit(set(This, calls[i].key, result, <<>>, now))
            /\ lastOp' = Op("set", calls[i].key, result, <<>>, Undefined)
       ELSE /\ lastOp' = Op("none", NoKey, NoValue, <<>>, Undefined)
            /\ emitted' = <<>>
            /\ observed' = <<>>
            /\ UNCHANGED <<engineVars, nodes>>
    /\ calls' = [calls EXCEPT ![i] = IdleFrame]
    /\ UNCHANGED <<now, touched, ref, refResult, decorationVars>>

\* The awaited operation rejects: the call rejects with it.
Reject(i) ==
    /\ calls[i].pc = "awaiting"
    /\ lastCall' = Call(i, "reject", calls[i].key, "thrown", NoValue,
                        NoValue, 0)
    /\ calls' = [calls EXCEPT ![i] = IdleFrame]
    /\ lastOp' = Op("none", NoKey, NoValue, <<>>, Undefined)
    /\ emitted' = <<>>
    /\ observed' = <<>>
    /\ UNCHANGED <<engineVars, nodes, now, touched, ref, refResult,
                   decorationVars>>

WrapperTick == tickStep /\ lastCall' = NoCall /\ UNCHANGED <<ref, refResult>>

NextWrapper ==
    \/ \E i \in CallIds, args \in ArgsSet, origThrows \in BOOLEAN :
          Invoke(i, args, origThrows)
    \/ \E i \in CallIds, result \in Results : Resolve(i, result)
    \/ \E i \in CallIds : Reject(i)
    \/ WrapperTick

SpecWrapper == InitWrapper /\ [][NextWrapper]_vars

----------------------------------------------------------------------------
(* A class with two decorated methods and two instances.  The decorator     *)
(* runs once for each method when the class is defined; the function it     *)
(* installs is called with any instance as `this`.                          *)

\* the decorated methods of the class
Methods == {"getUserProfile", "getProduct"}

\* the instances the methods are called on
Receivers == {"serviceA", "serviceB"}

NoMethod == "-"

NoReceiver == "-"

\* both methods are decorated with `@Cacheable({ ttl: 1 })` and called with
\* the same argument list: each derives the key '[1]'
ClassOptionsSet == { [ttl |-> 1] }

ClassArgsSet == { <<1>> }

\* what the wrapped operations resolve to
ClassResults == {"User", Undefined}

\* `originalMethod.apply(this, args)`: what the wrapped operation of `method`
\* computes on `receiver` is marked with both
ResultOf(method, receiver, result) ==
    IF result \in {Undefined, Null} THEN result
    ELSE result \o "@" \o receiver \o "." \o method

\* the cache a call of `method` on `receiver` uses: a global `cache` for the
\* one the decoration of the method created
CacheOf_Global(method, receiver) == "getUserProfile"

\* the cache a call of `method` on `receiver` uses: the `cache` in the closure
\* of the decoration of the method
CacheOf(method, receiver) == method

\* the engine of a decorated method between calls
Settle(c) == [Renumber(Collect(c)) EXCEPT !.emitted = <<>>]

ClassFrame(pc, method, receiver, key) ==
    [pc |-> pc, method |-> method, receiver |-> receiver, key |-> key]

ClassIdle == ClassFrame("idle", NoMethod, NoReceiver, NoKey)

ClassCall(i, step, method, receiver, key, outcome, value, settled, invoked) ==
    [id |-> i, step |-> step, method |-> method, receiver |-> receiver,
     key |-> key, outcome |-> outcome, value |-> value, settled |-> settled,
     invoked |-> invoked]

NoClassCall ==
    ClassCall(0, "none", NoMethod, NoReceiver, NoKey, "none", NoValue,
              NoValue, 0)

\* the class is defined: each method is decorated, with the same options
InitClass ==
    /\ \E options \in ClassOptionsSet :
          /\ wopts = options
          /\ decorated = [m \in Methods |-> Cacheable(options)]
    /\ Constructed(Constructor(<<>>))
    /\ listener = NoListener
    /\ InitObservers
    /\ calls = [i \in CallIds |-> ClassIdle]
    /\ lastCall = NoClassCall

\* `receiver.method(...args)`, to the return or the `await`
InvokeOn(i, method, receiver, args, origThrows) ==
    /\ FirstIdle(i)
    /\ \E kg \in {DeriveKey(wopts, args)} :
          IF ~kg.ok
          THEN /\ lastCall' = ClassCall(i, "invoke", method, receiver, NoKey,
                                        "thrown", NoValue, NoValue, 0)
               /\ UNCHANGED <<decorated, calls>>
          ELSE \E r \in {get(decorated[CacheOf(method, receiver)], kg.key,
                              now)} :
                  /\ decorated' = [decorated EXCEPT
                                     ![CacheOf(method, receiver)] = Settle(r.c)]
                  /\ IF isHit(r.result)
                     THEN /\ lastCall' = ClassCall(i, "invoke", method,
                                                   receiver, kg.key, "returned",
                                                   r.result, NoValue, 0)
                          /\ UNCHANGED calls
                     ELSE IF origThrows
                     THEN /\ lastCall' = ClassCall(i, "invoke", method,
                                                   receiver, kg.key, "thrown",
                                                   NoValue, NoValue, 1)
                          /\ UNCHANGED calls
                     ELSE /\ lastCall' = ClassCall(i, "invoke", method,
                                                   receiver, kg.key, "awaiting",
                                                   NoValue, NoValue, 1)
                          /\ calls' = [calls EXCEPT
                                         ![i] = ClassFrame("awaiting", method,
                                                           receiver, kg.key)]
    /\ UNCHANGED <<engineVars, nodes, emitted, observed, lastOp, now, touched,
                   ref, refResult, wopts>>

\* the awaited operation resolves: from the `await` to the return
ResolveOf(i, result) ==
    /\ calls[i].pc = "awaiting"
    /\ \E f \in {calls[i]} :
       \E v \in {ResultOf(f.method, f.receiver, result)} :
          /\ lastCall' = ClassCall(i, "resolve", f.method, f.receiver, f.key,
                                   "returned", v, v, 0)
          /\ IF isStorable(v)
             THEN \E d \in {Settle(set(decorated[CacheOf(f.method,
                                                          f.receiver)],
                                       f.key, v, <<>>, now))} :
                     /\ DOMAIN d.nodes \subseteq NodeIds
                     /\ decorated' = [decorated EXCEPT
                                        ![CacheOf(f.method, f.receiver)] = d]
             ELSE UNCHANGED decorated
    /\ calls' = [calls EXCEPT ![i] = ClassIdle]
    /\ UNCHANGED <<engineVars, nodes, emitted, observed, lastOp, now, touched,
                   ref, refResult, wopts>>

\* the awaited operation rejects
RejectOf(i) ==
    /\ calls[i].pc = "awaiting"
    /\ lastCall' = ClassCall(i, "reject", calls[i].method, calls[i].receiver,
                             calls[i].key, "thrown", NoValue, NoValue, 0)
    /\ calls' = [calls EXCEPT ![i] = ClassIdle]
    /\ UNCHANGED <<engineVars, nodes, emitted, observed, lastOp, now, touched,
                   ref, refResult, decorationVars>>

ClassTick == tickStep /\ lastCall' = NoClassCall /\ UNCHANGED <<ref, refResult>>

NextClass ==
    \/ \E i \in CallIds, method \in Methods, receiver \in Receivers,
          args \in ClassArgsSet, origThrows \in BOOLEAN :
          InvokeOn(i, method, receiver, args, origThrows)
    \/ \E i \in CallIds, result \in ClassResults : ResolveOf(i, result)
    \/ \E i \in CallIds : RejectOf(i)
    \/ ClassTick

SpecClass == InitClass /\ [][NextClass]_vars

----------------------------------------------------------------------------
(* Properties of the engine *)

\* the entry the index holds for key k, before and after a step
Entry(k) == nodes[cache[k]]

EntryAfter(k) == nodes'[cache'[k]]

\* the TTL a set is to use, in milliseconds: the one given if it is given and
\* nonzero, else the default
ResolvedTTL(ttlArg) ==
    IF ttlArg # <<>> /\ ttlArg[1] # 0 THEN ttlArg[1] * MsPerSec
    ELSE defaultTTL

\* the expiry a set at time t is to store: none unless the TTL is positive
ExpectedExpiry(ttlArg, t) ==
    IF ResolvedTTL(ttlArg) > 0 THEN <<t + ResolvedTTL(ttlArg)>>
    ELSE NullExpiry

\* the last step was a set of a key that was not in the index, on a cache
\* whose size had reached its capacity
SetOnFull(op) ==
    op.op = "set" /\ ~op.existed /\ capacity >= 1 /\ op.sizeBefore = capacity

(* C1: with a capacity of at least 1, size never exceeds capacity, whatever *)
(* gets, sets, clears and clock ticks came before.                          *)
C1_SizeWithinCapacity == capacity >= 1 => size <= capacity

\* a new key was set on a full cache, and the cache is full again
C1_Witness == SetOnFull(lastOp) /\ size = capacity

(* C2: a set of a new key on a full cache (capacity >= 1) evicts exactly    *)
(* one entry, the one whose last touch is the oldest among the entries      *)
(* present; every other entry stays as it was.                              *)
C2_EvictsLeastRecentlyTouched ==
    [][SetOnFull(lastOp') =>
         LET lru == touched[Len(touched)]
         IN /\ DOMAIN cache' = (DOMAIN cache \ {lru}) \cup {lastOp'.key}
            /\ lru \notin DOMAIN cache'
            /\ Len(emitted') = 1
            /\ emitted'[1].key = lru
            /\ \A k \in DOMAIN cache \ {lru} :
                  /\ EntryAfter(k).value = Entry(k).value
                  /\ EntryAfter(k).expiry = Entry(k).expiry]_vars

\* capacity 2: after A and B were set and A was touched last, set(C) has
\* evicted B and kept A and C
C2_Witness ==
    /\ capacity = 2
    /\ SetOnFull(lastOp)
    /\ lastOp.key = "C"
    /\ DOMAIN cache = {"A", "C"}
    /\ touched = <<"C", "A">>
    /\ Len(emitted) = 1
    /\ emitted[1].key = "B"
    /\ emitted[1].reason = "capacity"

(* C3: for an entry with expiry E, get before E returns the value; get at   *)
(* any time now >= E, the instant now = E included, returns a miss, removes *)
(* the entry and emits one 'expired' notification.                          *)
C3_ExpiredOnceExpiryReached ==
    [][(lastOp'.op = "get" /\ lastOp'.existed
           /\ Entry(lastOp'.key).expiry # NullExpiry) =>
         LET k == lastOp'.key
             e == Entry(k)
         IN IF now < e.expiry[1]
            THEN lastOp'.result = e.value
            ELSE /\ lastOp'.result = Undefined
                 /\ k \notin DOMAIN cache'
                 /\ emitted' = <<[key |-> k, value |-> e.value,
                                  reason |-> "expired"]>>]_vars

(* C4: each removal of an entry by get or set emits exactly one event with  *)
(* the removed entry's key, the value it held and the reason ('expired' by  *)
(* get, 'capacity' by set); clear emits none, and so does every get or set  *)
(* that removes no entry.                                                   *)
C4_OneEventPerRemoval ==
    [][LET removed == DOMAIN cache \ DOMAIN cache'
       IN /\ lastOp'.op = "clear" => emitted' = <<>>
          /\ lastOp'.op \in {"get", "set"} =>
               /\ Len(emitted') = Cardinality(removed)
               /\ \A i \in DOMAIN emitted' :
                     /\ emitted'[i].key \in removed
                     /\ emitted'[i].value = Entry(emitted'[i].key).value
                     /\ emitted'[i].reason =
                          (IF lastOp'.op = "get" THEN "expired"
                           ELSE "capacity")]_vars

\* a get has found its entry expired and published the removal
C4_Witness ==
    /\ lastOp.op = "get"
    /\ lastOp.existed
    /\ lastOp.key \notin DOMAIN cache
    /\ Len(emitted) = 1
    /\ emitted[1].reason = "expired"

(* C5: a set of a key already in the index, the cache full or not, evicts   *)
(* nothing and emits nothing, leaves size and the stored keys as they were, *)
(* replaces the key's value and expiry, and makes it the most recently used *)
(* entry; a get of the key right after it returns the new value.            *)
C5_UpdateInPlace ==
    [][/\ (lastOp'.op = "set" /\ lastOp'.existed) =>
            /\ emitted' = <<>>
            /\ size' = size
            /\ DOMAIN cache' = DOMAIN cache
            /\ head' = cache'[lastOp'.key]
            /\ EntryAfter(lastOp'.key).value = lastOp'.value
            /\ EntryAfter(lastOp'.key).expiry = ExpectedExpiry(lastOp'.ttl, now)
            /\ \A k \in DOMAIN cache \ {lastOp'.key} :
                  /\ EntryAfter(k).value = Entry(k).value
                  /\ EntryAfter(k).expiry = Entry(k).expiry
       /\ (lastOp.op = "set" /\ lastOp.existed /\ lastOp'.op = "get"
              /\ lastOp'.key = lastOp.key) =>
            lastOp'.result = lastOp.value]_vars

\* a key of a full cache was set again
C5_Witness ==
    /\ lastOp.op = "set"
    /\ lastOp.existed
    /\ capacity >= 1
    /\ lastOp.sizeBefore = capacity
    /\ size = capacity

(* C6 as claimed: the resolved TTL is the given ttl if it is given and      *)
(* nonzero, else the default; whenever the resolved TTL is nonzero, also    *)
(* when it is negative, the expiry stored is now + resolved TTL, and when   *)
(* it is zero the entry has no expiry.                                      *)
C6_ExpiryForEveryNonzeroTTL ==
    [][lastOp'.op = "set" =>
         EntryAfter(lastOp'.key).expiry =
            (IF ResolvedTTL(lastOp'.ttl) # 0
             THEN <<now + ResolvedTTL(lastOp'.ttl)>>
             ELSE NullExpiry)]_vars

(* C6 amended: the resolved TTL is the given ttl if it is given and         *)
(* nonzero, else the default; when the resolved TTL is positive the expiry  *)
(* stored is now + resolved TTL, and when it is zero or negative the entry  *)
(* has no expiry; a get of an entry without expiry never finds it expired.  *)
C6_ExpiryForPositiveTTL ==
    [][/\ lastOp'.op = "set" =>
            EntryAfter(lastOp'.key).expiry = ExpectedExpiry(lastOp'.ttl, now)
       /\ (lastOp'.op = "get" /\ lastOp'.existed
              /\ Entry(lastOp'.key).expiry = NullExpiry) =>
            /\ lastOp'.result = Entry(lastOp'.key).value
            /\ lastOp'.key \in DOMAIN cache'
            /\ emitted' = <<>>]_vars

\* a set with a negative ttl, on a cache whose default TTL is positive, has
\* stored an entry without expiry
C6_Witness ==
    /\ lastOp.op = "set"
    /\ lastOp.ttl = <<-1>>
    /\ defaultTTL > 0
    /\ Entry(lastOp.key).expiry = NullExpiry

\* the engine as the constructor leaves it, for the configuration in use
Fresh ==
    [capacity |-> capacity, defaultTTL |-> defaultTTL, cache |-> <<>>,
     nodes |-> <<>>, head |-> NullNode, tail |-> NullNode, size |-> 0,
     listener |-> listener, emitted |-> <<>>, observed |-> <<>>,
     thrown |-> FALSE]

(* C7: clear leaves size 0, the index and the recency list empty (head and  *)
(* tail absent) and capacity and defaultTTL as configured, so that the      *)
(* engine is as the constructor left it; it emits nothing; on an empty      *)
(* cache it changes nothing.  After it a get of any key misses for as long  *)
(* as the key is not set again: only a set puts a key into the index, and   *)
(* a get of a key that is not in the index misses.                          *)
C7_ClearResets ==
    [][/\ lastOp'.op = "clear" =>
            /\ This' = Fresh
            /\ emitted' = <<>>
            /\ size = 0 => UNCHANGED <<engineVars, nodes>>
       /\ (lastOp.op = "clear" /\ lastOp'.op = "get") =>
            /\ lastOp'.result = Undefined
            /\ emitted' = <<>>
       /\ \A k \in DOMAIN cache' \ DOMAIN cache :
            lastOp'.op = "set" /\ lastOp'.key = k
       /\ (lastOp'.op = "get" /\ lastOp'.key \notin DOMAIN cache) =>
            lastOp'.result = Undefined]_vars

\* a cache holding entries was cleared
C7_Witness ==
    /\ lastOp.op = "clear"
    /\ lastOp.sizeBefore > 0
    /\ size = 0
    /\ cache = <<>>

(* C8: get(k) returns v exactly when the reference map-with-recency, run    *)
(* over the same calls and clock ticks, holds v for k: the last set of k    *)
(* stored v and k was since neither cleared, evicted nor removed as         *)
(* expired, and its expiry has not been reached; else get(k) misses.        *)
C8_GetAgreesWithReference ==
    (lastOp.op = "get" /\ capacity >= 1) => lastOp.result = refResult

(* C9: a cache with a capacity of 0 or less is rejected at construction:    *)
(* no such cache is ever created and used.                                  *)
C9_NonPositiveCapacityRejected ==
    lastOp.op \in {"get", "set", "clear"} => capacity >= 1

----------------------------------------------------------------------------
(* Properties of the wrapper *)

\* the engine holds a live entry for key k: one whose expiry has not passed
LiveEntry(k) ==
    /\ k \in DOMAIN cache
    /\ Entry(k).expiry # NullExpiry => now <= Entry(k).expiry[1]

(* C10: for an invocation with derived key k: on a hit, whatever the stored *)
(* value, falsy ones included, the call returns the stored value and the    *)
(* wrapped operation is not invoked; on a miss the wrapped operation is     *)
(* invoked once, in the step that found the miss and in no later step of    *)
(* the call, and its result is stored under k if and only if it is neither  *)
(* undefined nor null; when the key generator or the wrapped operation      *)
(* fails, the call fails and nothing is stored.                             *)
C10_WrapperCachesValidResults ==
    [][LET c == lastCall'
       IN /\ c.step = "invoke" =>
               /\ c.key = NoKey =>
                    /\ c.outcome = "thrown"
                    /\ c.invoked = 0
                    /\ UNCHANGED <<engineVars, nodes, calls>>
               /\ (c.key # NoKey /\ LiveEntry(c.key)) =>
                    /\ c.outcome = "returned"
                    /\ c.value = Entry(c.key).value
                    /\ c.invoked = 0
                    /\ DOMAIN cache' = DOMAIN cache
                    /\ UNCHANGED calls
               /\ (c.key # NoKey /\ ~LiveEntry(c.key)) =>
                    /\ c.outcome \in {"awaiting", "thrown"}
                    /\ c.invoked = 1
                    /\ c.key \notin DOMAIN cache'
                    /\ c.outcome = "awaiting" <=>
                         calls' = [calls EXCEPT
                                     ![c.id] = Frame("awaiting", c.key)]
                    /\ c.outcome = "thrown" <=> UNCHANGED calls
          /\ c.step = "resolve" =>
               /\ calls[c.id] = Frame("awaiting", c.key)
               /\ c.outcome = "returned"
               /\ c.value = c.settled
               /\ c.invoked = 0
               /\ IF c.settled \notin {Undefined, Null}
                  THEN /\ c.key \in DOMAIN cache'
                       /\ EntryAfter(c.key).value = c.settled
                  ELSE UNCHANGED <<engineVars, nodes>>
          /\ c.step = "reject" =>
               /\ calls[c.id] = Frame("awaiting", c.key)
               /\ c.outcome = "thrown"
               /\ c.invoked = 0
               /\ UNCHANGED <<engineVars, nodes>>]_vars

\* a call has hit a stored falsy value and returned it without invoking the
\* wrapped operation
C10_Witness ==
    /\ lastCall.step = "invoke"
    /\ lastCall.outcome = "returned"
    /\ lastCall.value = "0"
    /\ lastCall.invoked = 0
    /\ lastOp.existed

----------------------------------------------------------------------------
(* The recency list and the index *)

\* the nodes met from node n following prev, each once
RECURSIVE WalkBack(_, _, _)
WalkBack(c, n, seen) ==
    IF n = NullNode \/ n \in seen THEN <<>>
    ELSE <<n>> \o WalkBack(c, c.nodes[n].prev, seen \cup {n})

Reverse(q) == [i \in DOMAIN q |-> q[Len(q) + 1 - i]]

\* the keys of the nodes of a walk, in the order of the walk
KeysOf(w) == [i \in DOMAIN w |-> nodes[w[i]].key]

\* the list from head by next, and from tail by prev
Forward == Walk(This, head, {})

Backward == WalkBack(This, tail, {})

(* C11: with a capacity of at least 1, in every state a sequence of gets,   *)
(* sets, clears and clock ticks reaches: the keys of the index are the keys *)
(* on the list and each index entry is the list node of its key; size is    *)
(* the number of index entries and the length of the list; the walk by next *)
(* from head ends after the tail and the walk by prev from tail ends after  *)
(* the head, the two meeting the same nodes in reverse order, each once;    *)
(* head has no prev and tail no next; head and tail are both absent exactly *)
(* when size is 0.                                                          *)
C11_ListMatchesIndex ==
    capacity >= 1 =>
      /\ SeqRange(KeysOf(Forward)) = DOMAIN cache
      /\ \A k \in DOMAIN cache :
            cache[k] \in SeqRange(Forward) /\ nodes[cache[k]].key = k
      /\ size = Cardinality(DOMAIN cache)
      /\ size = Len(Forward)
      /\ Backward = Reverse(Forward)
      /\ \A i \in DOMAIN Forward :
            /\ nodes[Forward[i]].next =
                  (IF i < Len(Forward) THEN Forward[i + 1] ELSE NullNode)
            /\ nodes[Forward[i]].prev =
                  (IF i > 1 THEN Forward[i - 1] ELSE NullNode)
      /\ \A i, j \in DOMAIN Forward :
            KeysOf(Forward)[i] = KeysOf(Forward)[j] => i = j
      /\ head # NullNode => nodes[head].prev = NullNode
      /\ tail # NullNode => nodes[tail].next = NullNode
      /\ (head = NullNode /\ tail = NullNode) <=> size = 0
      /\ head = NullNode <=> tail = NullNode

\* a get has moved a node of a list of three nodes to the head
C11_Witness ==
    /\ capacity >= 1
    /\ lastOp.op = "get"
    /\ lastOp.result # Undefined
    /\ size = 3
    /\ Len(Forward) = 3
    /\ nodes[head].key = lastOp.key
    /\ KeysOf(Forward) = touched
    /\ KeysOf(Forward) = <<"C", "A", "B">>

(* C12: a set of a new key on a cache that holds an entry and whose size    *)
(* has reached its capacity evicts the tail of the list with reason         *)
(* 'capacity', its expiry passed or not, and looks at no expiry: every      *)
(* other entry, expired ones included, stays in the index with its value    *)
(* and expiry, and nothing is emitted as 'expired'.                         *)
C12_FullSetEvictsTailOnly ==
    [][(/\ lastOp'.op = "set"
        /\ ~lastOp'.existed
        /\ lastOp'.sizeBefore >= capacity
        /\ tail # NullNode) =>
         LET lru == nodes[tail]
         IN /\ emitted' = <<[key |-> lru.key, value |-> lru.value,
                              reason |-> "capacity"]>>
            /\ lru.key \notin DOMAIN cache'
            /\ size' = size
            /\ DOMAIN cache' = (DOMAIN cache \ {lru.key}) \cup {lastOp'.key}
            /\ \A k \in DOMAIN cache \ {lru.key} :
                  /\ EntryAfter(k).value = Entry(k).value
                  /\ EntryAfter(k).expiry = Entry(k).expiry]_vars

\* a set of a new key on a full cache has evicted a tail whose expiry had
\* not passed and has left in the cache an entry whose expiry has passed
C12_Witness ==
    /\ SetOnFull(lastOp)
    /\ ~lastOp.lruExpired
    /\ Len(emitted) = 1
    /\ emitted[1].reason = "capacity"
    /\ \E k \in DOMAIN cache \ {lastOp.key} : isExpired(Entry(k), now)

(* C13: expiry is lazy.  A clock tick changes neither size, the index, the  *)
(* list nor any entry, and emits nothing.  A key leaves the index only in   *)
(* (a) a get of that key finding its expiry passed, (b) a set of a new key  *)
(* on a cache whose size has reached its capacity, the key being the        *)
(* tail's, or (c) a clear; in every other step an entry whose expiry has    *)
(* passed stays in the index and is counted by size.                        *)
C13_ExpiryIsLazy ==
    [][LET ownGet(k) == /\ lastOp'.op = "get"
                        /\ lastOp'.key = k
                        /\ isExpired(Entry(k), now)
           fullSet(k) == /\ lastOp'.op = "set"
                         /\ ~lastOp'.existed
                         /\ lastOp'.sizeBefore >= capacity
                         /\ cache[k] = tail
           cleared == lastOp'.op = "clear"
       IN /\ lastOp'.op = "tick" =>
               /\ UNCHANGED <<engineVars, nodes>>
               /\ emitted' = <<>>
          /\ \A k \in DOMAIN cache \ DOMAIN cache' :
               ownGet(k) \/ fullSet(k) \/ cleared
          /\ \A k \in DOMAIN cache :
               (isExpired(Entry(k), now)
                   /\ ~ownGet(k) /\ ~fullSet(k) /\ ~cleared) =>
                 /\ k \in DOMAIN cache'
                 /\ size' = Cardinality(DOMAIN cache')
                 /\ size' >= 1]_vars

\* a clock tick has taken the time past the expiry of an entry, and the
\* entry is in the index and counted as before
C13_Witness ==
    /\ lastOp.op = "tick"
    /\ size = 2
    /\ Cardinality(DOMAIN cache) = 2
    /\ \E k \in DOMAIN cache :
          /\ isExpired(Entry(k), now)
          /\ ~isExpired(Entry(k), now - TickStep)

(* C14: a get of a key that is not in the index returns undefined and       *)
(* changes nothing: size, the index, every node with its value, expiry and  *)
(* links, head and tail are as before, and nothing is emitted.              *)
C14_MissChangesNothing ==
    [][(lastOp'.op = "get" /\ ~lastOp'.existed) =>
         /\ lastOp'.result = Undefined
         /\ UNCHANGED <<engineVars, nodes>>
         /\ Forward' = Forward
         /\ emitted' = <<>>]_vars

\* a get has missed on a cache that holds two other keys
C14_Witness ==
    /\ lastOp.op = "get"
    /\ ~lastOp.existed
    /\ lastOp.result = Undefined
    /\ lastOp.key \notin DOMAIN cache
    /\ size = 2
    /\ Len(Forward) = 2

(* C18: a set of a key that is in the index with its expiry passed checks   *)
(* no expiry: it emits nothing, keeps size and the stored keys, stores the  *)
(* value given and the expiry computed from the current time, and makes the *)
(* entry the head of the list; a get of a key whose entry is in the index   *)
(* with no expiry or an expiry not yet reached returns the stored value,    *)
(* so that a get of the key right after such a set returns the value set.   *)
C18_SetRevivesExpired ==
    [][/\ (lastOp'.op = "set" /\ lastOp'.existed
              /\ isExpired(Entry(lastOp'.key), now)) =>
            /\ emitted' = <<>>
            /\ size' = size
            /\ DOMAIN cache' = DOMAIN cache
            /\ EntryAfter(lastOp'.key).value = lastOp'.value
            /\ EntryAfter(lastOp'.key).expiry = ExpectedExpiry(lastOp'.ttl, now)
            /\ ~isExpired(EntryAfter(lastOp'.key), now)
            /\ head' = cache'[lastOp'.key]
            /\ Forward'[1] = cache'[lastOp'.key]
       /\ (lastOp'.op = "get" /\ lastOp'.existed
              /\ (Entry(lastOp'.key).expiry = NullExpiry
                     \/ now < Entry(lastOp'.key).expiry[1])) =>
            /\ lastOp'.result = Entry(lastOp'.key).value
            /\ emitted' = <<>>
       /\ (lastOp.op = "set" /\ lastOp.wasExpired
              /\ lastOp'.op = "get" /\ lastOp'.key = lastOp.key) =>
            /\ lastOp'.result = lastOp.value
            /\ emitted' = <<>>]_vars

\* a key whose expiry had passed was set again, with another entry in the
\* cache: it heads the list with the value set and an expiry ahead
C18_Witness ==
    /\ lastOp.op = "set"
    /\ lastOp.wasExpired
    /\ emitted = <<>>
    /\ size = 2
    /\ nodes[head].key = lastOp.key
    /\ nodes[head].value = lastOp.value
    /\ nodes[head].expiry # NullExpiry
    /\ nodes[head].expiry[1] > now

----------------------------------------------------------------------------
(* Properties of the engine with a subscriber *)

\* the subscriber calls set, get or clear of the cache from its handler
CallsBack == listener.kind \in {"set", "get", "clear"}

(* C15: with a subscriber that calls set, get or clear of the same cache    *)
(* from its handler and a capacity of at least 1, after every call of the   *)
(* cache has returned: size is at most capacity, size is the number of      *)
(* index entries and the length of the list, and no key is on the list      *)
(* twice.                                                                   *)
C15_InvariantsSurviveCallbacks ==
    (CallsBack /\ capacity >= 1 /\ lastOp.result # Thrown) =>
      /\ size <= capacity
      /\ size = Cardinality(DOMAIN cache)
      /\ size = Len(Forward)
      /\ \A i, j \in DOMAIN Forward :
            KeysOf(Forward)[i] = KeysOf(Forward)[j] => i = j

(* C16: get and set never throw, a subscriber registered or not, and a set  *)
(* of a key that was not in the index ends with the key in the index, its   *)
(* entry holding the value given and heading the list.                      *)
C16_GetSetTotal ==
    lastOp.op \in {"get", "set"} =>
      /\ lastOp.result # Thrown
      /\ (lastOp.op = "set" /\ ~lastOp.existed) =>
            /\ lastOp.key \in DOMAIN cache
            /\ Entry(lastOp.key).value = lastOp.value
            /\ head = cache[lastOp.key]

(* C17: the subscriber is called after the evicted entry is unlinked and    *)
(* before the call goes on: at each event the event's key is not in the     *)
(* index; at the first event of a call size is one less than before the     *)
(* call; and at the first event of a set, an eviction for capacity, the key *)
(* being set is not in the index and size is capacity - 1.                  *)
C17_HandlerSeesEntryUnlinked ==
    [][/\ \A i \in DOMAIN observed' :
            observed'[i].event.key \notin observed'[i].keys
       /\ (lastOp'.op \in {"get", "set"} /\ observed' # <<>>) =>
            /\ observed'[1].event = emitted'[1]
            /\ observed'[1].size = size - 1
            /\ observed'[1].keys = DOMAIN cache \ {emitted'[1].key}
       /\ (lastOp'.op = "set" /\ observed' # <<>>) =>
            /\ observed'[1].event.reason = "capacity"
            /\ lastOp'.key \notin observed'[1].keys
            /\ observed'[1].size = capacity - 1]_vars

----------------------------------------------------------------------------
(* Properties of the wrapper: overlapping calls *)

\* the calls suspended at their await with derived key k
Pending(k) == {j \in CallIds : calls[j] = Frame("awaiting", k)}

PendingAfter(k) == {j \in CallIds : calls'[j] = Frame("awaiting", k)}

(* C19 as claimed: when two calls with the same derived key overlap and     *)
(* complete one after the other, the first having stored its result, the    *)
(* value the cache holds for the key after the second has completed is the  *)
(* second's result.                                                         *)
C19_LastCompletedIsStored ==
    [][(/\ lastCall.step = "resolve"
        /\ isStorable(lastCall.settled)
        /\ lastCall'.step = "resolve"
        /\ lastCall'.id # lastCall.id
        /\ lastCall'.key = lastCall.key) =>
         /\ lastCall'.key \in DOMAIN cache'
         /\ EntryAfter(lastCall'.key).value = lastCall'.settled]_vars

(* C19 amended: calls in flight are not coalesced.  A call that starts      *)
(* while another with the same derived key is at its await, the cache       *)
(* holding no live entry for the key, misses, invokes the wrapped operation *)
(* itself and stores nothing before it resolves; both are then at their     *)
(* await.  Every call that resolves to a result other than undefined and    *)
(* null leaves the key stored with its own result, whatever an overlapping  *)
(* call stored before; a call that resolves to undefined or null, or        *)
(* rejects, leaves the cache as it was.  So the value left is the result of *)
(* the last call to complete with a storable result.                        *)
C19_NoCoalescing ==
    [][LET c == lastCall'
       IN /\ (c.step = "invoke" /\ c.key # NoKey /\ ~LiveEntry(c.key)
                 /\ Pending(c.key) # {}) =>
               /\ c.invoked = 1
               /\ c.outcome \in {"awaiting", "thrown"}
               /\ c.key \notin DOMAIN cache'
               /\ c.outcome = "awaiting" =>
                    PendingAfter(c.key) = Pending(c.key) \cup {c.id}
               /\ c.id \notin Pending(c.key)
          /\ c.step = "resolve" =>
               /\ c.id \in Pending(c.key)
               /\ PendingAfter(c.key) = Pending(c.key) \ {c.id}
               /\ IF c.settled \notin {Undefined, Null}
                  THEN /\ c.key \in DOMAIN cache'
                       /\ EntryAfter(c.key).value = c.settled
                       /\ head' = cache'[c.key]
                  ELSE UNCHANGED <<engineVars, nodes>>
          /\ c.step = "reject" =>
               /\ PendingAfter(c.key) = Pending(c.key) \ {c.id}
               /\ UNCHANGED <<engineVars, nodes>>
          /\ (lastCall.step = "resolve" /\ c.step = "resolve"
                 /\ c.id # lastCall.id /\ c.key = lastCall.key
                 /\ isStorable(lastCall.settled)) =>
               EntryAfter(c.key).value =
                  (IF isStorable(c.settled) THEN c.settled
                   ELSE lastCall.settled)]_vars

\* two calls with the same derived key have both missed and invoked the
\* wrapped operation; the first has resolved and stored its result and the
\* second is still at its await
C19_Witness ==
    /\ lastCall.step = "resolve"
    /\ lastCall.settled = "User"
    /\ Pending(lastCall.key) # {}
    /\ lastCall.id \notin Pending(lastCall.key)
    /\ lastCall.key \in DOMAIN cache
    /\ Entry(lastCall.key).value = "User"

----------------------------------------------------------------------------
(* Properties of a class with decorated methods *)

\* the entry the cache of `method` holds for key k
MethodEntry(method, k) ==
    decorated[method].nodes[decorated[method].cache[k]]

MethodEntryAfter(method, k) ==
    decorated'[method].nodes[decorated'[method].cache[k]]

\* the cache of `method` holds a live entry for key k
MethodLive(method, k) ==
    /\ k \in DOMAIN decorated[method].cache
    /\ MethodEntry(method, k).expiry # NullExpiry =>
          now <= MethodEntry(method, k).expiry[1]

\* the results the wrapped operation of `method` has computed, on any
\* instance
ResultsOfMethod(method) ==
    {ResultOf(method, o, r) : o \in Receivers, r \in ClassResults}

(* C20: each decorated method has one cache, made when the method is        *)
(* decorated and used by the calls on every instance.  A call of a method   *)
(* whose cache holds a live entry for the derived key returns the stored    *)
(* value without invoking the wrapped operation, whichever instance it is   *)
(* called on and whichever instance the value was computed on.  A step of a *)
(* call of one method leaves the cache of every other method as it was,     *)
(* and a cache holds and returns only results of its own method.            *)
C20_OneCachePerMethod ==
    [][LET c == lastCall'
       IN /\ DOMAIN decorated' = Methods
          /\ (c.step = "invoke" /\ c.key # NoKey
                 /\ MethodLive(c.method, c.key)) =>
               /\ c.outcome = "returned"
               /\ c.invoked = 0
               /\ c.value = MethodEntry(c.method, c.key).value
          /\ (c.step = "invoke" /\ c.outcome = "returned") =>
               c.value \in ResultsOfMethod(c.method)
          /\ (c.step = "resolve" /\ isStorable(c.settled)) =>
               /\ c.key \in DOMAIN decorated'[c.method].cache
               /\ MethodEntryAfter(c.method, c.key).value = c.settled
          /\ \A m \in Methods :
               /\ m # c.method => decorated'[m] = decorated[m]
               /\ \A k \in DOMAIN decorated'[m].cache :
                     MethodEntryAfter(m, k).value \in ResultsOfMethod(m)]_vars

\* a call on one instance has returned, without invoking the wrapped
\* operation, what a call on the other instance had stored, while the cache
\* of the other method holds its own result under the same key
C20_Witness ==
    /\ lastCall.step = "invoke"
    /\ lastCall.outcome = "returned"
    /\ lastCall.invoked = 0
    /\ \E o \in Receivers \ {lastCall.receiver} :
          lastCall.value = ResultOf(lastCall.method, o, "User")
    /\ \E m \in Methods \ {lastCall.method} :
          /\ lastCall.key \in DOMAIN decorated[m].cache
          /\ MethodEntry(m, lastCall.key).value \in ResultsOfMethod(m)
          /\ MethodEntry(m, lastCall.key).value # lastCall.value

====
